---- MODULE Spec2Model ----
(***************************************************************************)
(* agentscope.tracing: the GenAI -> OpenInference translation layer.       *)
(*                                                                         *)
(*   _processor.py  _convert_genai_to_openinference, _ConvertedSpan,       *)
(*                  GenAIToOpenInferenceExporter,                          *)
(*                  GenAIToOpenInferenceProcessor                          *)
(*   _setup.py      setup_tracing, setup_phoenix_tracing                   *)
(*                                                                         *)
(* Three specifications share the module:                                  *)
(*   SpecTranslate  the attribute translator applied to one mapping        *)
(*   Spec           GenAIToOpenInferenceExporter.export on one batch       *)
(*   SpecSetup      the two setup entry points, span completion and the    *)
(*                  delivery policies they attach                          *)
(***************************************************************************)
EXTENDS Integers, Sequences, FiniteSets, TLC

VARIABLES
    attrs,            \* SpecTranslate: the mapping handed to the translator
    translated,       \* SpecTranslate: what the translator call produced
    spans,            \* Spec: the span objects of the batch, by object id
    exported,         \* Spec: what the export call did (sink calls, log, result)
    tracer_provider,  \* SpecSetup: the process-wide provider (0: none set)
    providers,        \* SpecSetup: the TracerProvider objects built so far
    processors,       \* SpecSetup: the span processors built so far
    sink,             \* SpecSetup: batches received by the network sinks
    history           \* SpecSetup: calls made so far (setup calls, ended spans)

vars == <<attrs, translated, spans, exported, tracer_provider, providers,
          processors, sink, history>>

(***************************************************************************)
(* Attribute values.  A span attribute is a scalar: here an int or a str.  *)
(* Python's None is what dict.get returns for an absent key.               *)
(***************************************************************************)
IntV(n) == [type |-> "int", n |-> n, s |-> ""]
StrV(s) == [type |-> "str", n |-> 0, s |-> s]
None == [type |-> "none", n |-> 0, s |-> ""]

\* Python truth value of an attribute value: 0, "" and None are false.
Truthy(v) ==
    CASE v.type = "int" -> v.n # 0
      [] v.type = "str" -> v.s # ""
      [] OTHER -> FALSE

\* Python's a + b: int + int adds, str + str concatenates, int + str and
\* str + int raise TypeError.
CanAdd(a, b) == a.type = b.type
Add(a, b) == IF a.type = "int" THEN IntV(a.n + b.n) ELSE StrV(a.s \o b.s)

\* Mappings are functions from a finite set of keys.
EmptyDict == [k \in {} |-> None]
Get(d, k) == IF k \in DOMAIN d THEN d[k] ELSE None
Put(d, k, v) == [x \in DOMAIN d \cup {k} |-> IF x = k THEN v ELSE d[x]]

(***************************************************************************)
(* The vocabularies (_processor.py, lines 12-49).                          *)
(***************************************************************************)
_OPERATION_TO_SPAN_KIND ==
    [chat |-> "LLM", invoke_agent |-> "AGENT", execute_tool |-> "TOOL",
     embeddings |-> "EMBEDDING", format |-> "CHAIN",
     invoke_generic_function |-> "CHAIN"]

_GENAI_OPERATION_NAME == "gen_ai.operation.name"
_GENAI_USAGE_INPUT_TOKENS == "gen_ai.usage.input_tokens"
_GENAI_USAGE_OUTPUT_TOKENS == "gen_ai.usage.output_tokens"
_GENAI_REQUEST_MODEL == "gen_ai.request.model"
_GENAI_PROVIDER_NAME == "gen_ai.system"
_GENAI_AGENT_NAME == "gen_ai.agent.name"
_GENAI_TOOL_NAME == "gen_ai.tool.name"
_GENAI_CONVERSATION_ID == "gen_ai.conversation.id"
_AGENTSCOPE_FUNCTION_INPUT == "agentscope.function.input"
_AGENTSCOPE_FUNCTION_OUTPUT == "agentscope.function.output"

_OI_SPAN_KIND == "openinference.span.kind"
_OI_INPUT_VALUE == "input.value"
_OI_INPUT_MIME_TYPE == "input.mime_type"
_OI_OUTPUT_VALUE == "output.value"
_OI_OUTPUT_MIME_TYPE == "output.mime_type"
_OI_LLM_TOKEN_PROMPT == "llm.token_count.prompt"
_OI_LLM_TOKEN_COMPLETION == "llm.token_count.completion"
_OI_LLM_TOKEN_TOTAL == "llm.token_count.total"
_OI_METADATA_MODEL == "metadata.model"
_OI_METADATA_PROVIDER == "metadata.provider"
_OI_METADATA_AGENT_NAME == "metadata.agent_name"
_OI_METADATA_TOOL_NAME == "metadata.tool_name"
_OI_METADATA_CONVERSATION_ID == "metadata.conversation_id"

(***************************************************************************)
(* _convert_genai_to_openinference (_processor.py, lines 133-179), rule by *)
(* rule.  Each rule takes the mapping built so far and returns it          *)
(* extended.                                                               *)
(***************************************************************************)

\* _OPERATION_TO_SPAN_KIND.get(op_name, "CHAIN")
SpanKindOf(op_name) ==
    IF op_name.type = "str" /\ op_name.s \in DOMAIN _OPERATION_TO_SPAN_KIND
    THEN _OPERATION_TO_SPAN_KIND[op_name.s]
    ELSE "CHAIN"

\* 1. operation_name -> span_kind: `if op_name := attrs.get(...)`.
RuleSpanKind(a, extra) ==
    LET op_name == Get(a, _GENAI_OPERATION_NAME)
    IN  IF Truthy(op_name)
        THEN Put(extra, _OI_SPAN_KIND, StrV(SpanKindOf(op_name)))
        ELSE extra

\* 2. token counts: `is not None` tests; the sum raises TypeError when the
\* two values cannot be added.
TokenSumRaises(a) ==
    LET input_tokens == Get(a, _GENAI_USAGE_INPUT_TOKENS)
        output_tokens == Get(a, _GENAI_USAGE_OUTPUT_TOKENS)
    IN  /\ input_tokens # None
        /\ output_tokens # None
        /\ ~CanAdd(input_tokens, output_tokens)

RuleTokens(a, extra) ==
    LET input_tokens == Get(a, _GENAI_USAGE_INPUT_TOKENS)
        output_tokens == Get(a, _GENAI_USAGE_OUTPUT_TOKENS)
        e1 == IF input_tokens # None
              THEN Put(extra, _OI_LLM_TOKEN_PROMPT, input_tokens)
              ELSE extra
        e2 == IF output_tokens # None
              THEN Put(e1, _OI_LLM_TOKEN_COMPLETION, output_tokens)
              ELSE e1
    IN  IF input_tokens # None /\ output_tokens # None
        THEN Put(e2, _OI_LLM_TOKEN_TOTAL, Add(input_tokens, output_tokens))
        ELSE e2

\* 3. payloads: `if func_input := attrs.get(...)`, value plus MIME type.
RulePayload(a, extra, source, value_key, mime_key) ==
    LET v == Get(a, source)
    IN  IF Truthy(v)
        THEN Put(Put(extra, value_key, v), mime_key, StrV("application/json"))
        ELSE extra

\* 4. metadata: `if model := attrs.get(...)`, copied 1:1.
RuleMetadata(a, extra, source, target) ==
    LET v == Get(a, source)
    IN  IF Truthy(v) THEN Put(extra, target, v) ELSE extra

\* The outcome of a call: it returns a mapping, or it raises.
Returned(extra) == [pc |-> "returned", extra |-> extra]
Raised == [pc |-> "raised", extra |-> EmptyDict]

_convert_genai_to_openinference(a) ==
    LET e1 == RuleSpanKind(a, EmptyDict)
        e2 == RuleTokens(a, e1)
        e3 == RulePayload(a, e2, _AGENTSCOPE_FUNCTION_INPUT,
                          _OI_INPUT_VALUE, _OI_INPUT_MIME_TYPE)
        e4 == RulePayload(a, e3, _AGENTSCOPE_FUNCTION_OUTPUT,
                          _OI_OUTPUT_VALUE, _OI_OUTPUT_MIME_TYPE)
        e5 == RuleMetadata(a, e4, _GENAI_REQUEST_MODEL, _OI_METADATA_MODEL)
        e6 == RuleMetadata(a, e5, _GENAI_PROVIDER_NAME, _OI_METADATA_PROVIDER)
        e7 == RuleMetadata(a, e6, _GENAI_AGENT_NAME, _OI_METADATA_AGENT_NAME)
        e8 == RuleMetadata(a, e7, _GENAI_TOOL_NAME, _OI_METADATA_TOOL_NAME)
        e9 == RuleMetadata(a, e8, _GENAI_CONVERSATION_ID,
                           _OI_METADATA_CONVERSATION_ID)
    IN  IF TokenSumRaises(a) THEN Raised ELSE Returned(e9)

(***************************************************************************)
(* SpecTranslate: one attribute mapping, drawn from a bounded set, is      *)
(* handed to the translator once.                                          *)
(***************************************************************************)
MaxAttrs == 2

\* The source vocabulary, one target key (already present on the span) and
\* one key outside both vocabularies.
Keys ==
    {_GENAI_OPERATION_NAME, _GENAI_USAGE_INPUT_TOKENS,
     _GENAI_USAGE_OUTPUT_TOKENS, _GENAI_REQUEST_MODEL, _GENAI_PROVIDER_NAME,
     _GENAI_AGENT_NAME, _GENAI_TOOL_NAME, _GENAI_CONVERSATION_ID,
     _AGENTSCOPE_FUNCTION_INPUT, _AGENTSCOPE_FUNCTION_OUTPUT,
     _OI_SPAN_KIND, "custom.key"}

Values ==
    {IntV(0), IntV(5), IntV(12),
     StrV(""), StrV("chat"), StrV("execute_tool"), StrV("search")}

\* All mappings with at most n keys of ks, values in vs.
Dicts(ks, vs, n) ==
    UNION {[d -> vs] : d \in {x \in SUBSET ks : Cardinality(x) <= n}}

NotCalled == [pc |-> "ready", extra |-> EmptyDict]

IdleExport == [pc |-> "ready", input |-> <<>>, converted |-> <<>>,
               sink_calls |-> <<>>, sink_answers |-> <<>>, log |-> <<>>,
               result |-> "none"]

InitTranslate ==
    /\ attrs \in Dicts(Keys, Values, MaxAttrs)
    /\ translated = NotCalled
    /\ spans = <<>>
    /\ exported = IdleExport
    /\ tracer_provider = 0
    /\ providers = <<>>
    /\ processors = <<>>
    /\ sink = <<>>
    /\ history = <<>>

Translate ==
    /\ translated.pc = "ready"
    /\ translated' = _convert_genai_to_openinference(attrs)
    /\ UNCHANGED <<attrs, spans, exported, tracer_provider, providers,
                   processors, sink, history>>

NextTranslate == Translate

SpecTranslate == InitTranslate /\ [][NextTranslate]_vars

Called == translated.pc # "ready"
Present(k) == k \in DOMAIN attrs

\* C9: the translator never raises, whatever the types of the values.
C9_TranslatorNeverRaises == translated.pc # "raised"

\* C3: on every mapping the translator returns for: no operation name, no
\* span-kind key; an operation name of the table gives the table's label; any
\* other operation name that is present, the empty string included, gives
\* "CHAIN".
C3_SpanKindRule ==
    translated.pc = "returned" =>
        LET e == translated.extra
            op == Get(attrs, _GENAI_OPERATION_NAME)
        IN  /\ ~Present(_GENAI_OPERATION_NAME) => _OI_SPAN_KIND \notin DOMAIN e
            /\ Present(_GENAI_OPERATION_NAME) =>
                   /\ _OI_SPAN_KIND \in DOMAIN e
                   /\ e[_OI_SPAN_KIND] =
                        IF op.type = "str"
                           /\ op.s \in DOMAIN _OPERATION_TO_SPAN_KIND
                        THEN StrV(_OPERATION_TO_SPAN_KIND[op.s])
                        ELSE StrV("CHAIN")

\* C4: after every call of the translator, each token count that is present
\* (0 included) is copied to its target key, and the total key is there
\* exactly when both counts are, holding their sum.
C4_TokenRule ==
    Called =>
        LET e == translated.extra
            i == Get(attrs, _GENAI_USAGE_INPUT_TOKENS)
            o == Get(attrs, _GENAI_USAGE_OUTPUT_TOKENS)
        IN  /\ Get(e, _OI_LLM_TOKEN_PROMPT) = i
            /\ Get(e, _OI_LLM_TOKEN_COMPLETION) = o
            /\ _OI_LLM_TOKEN_TOTAL \in DOMAIN e <=>
                   (Present(_GENAI_USAGE_INPUT_TOKENS)
                    /\ Present(_GENAI_USAGE_OUTPUT_TOKENS))
            /\ (i.type = "int" /\ o.type = "int") =>
                   Get(e, _OI_LLM_TOKEN_TOTAL) = IntV(i.n + o.n)

\* The source -> target pairs of the payload and metadata rules.
CopyPairs ==
    {<<_AGENTSCOPE_FUNCTION_INPUT, _OI_INPUT_VALUE>>,
     <<_AGENTSCOPE_FUNCTION_OUTPUT, _OI_OUTPUT_VALUE>>,
     <<_GENAI_REQUEST_MODEL, _OI_METADATA_MODEL>>,
     <<_GENAI_PROVIDER_NAME, _OI_METADATA_PROVIDER>>,
     <<_GENAI_AGENT_NAME, _OI_METADATA_AGENT_NAME>>,
     <<_GENAI_TOOL_NAME, _OI_METADATA_TOOL_NAME>>,
     <<_GENAI_CONVERSATION_ID, _OI_METADATA_CONVERSATION_ID>>}

MimePairs ==
    {<<_OI_INPUT_VALUE, _OI_INPUT_MIME_TYPE>>,
     <<_OI_OUTPUT_VALUE, _OI_OUTPUT_MIME_TYPE>>}

\* C5: on every mapping the translator returns for, each payload and
\* metadata target key is emitted, with the source's value, exactly when the
\* source key is present, whatever its value; a payload's MIME-type key is
\* "application/json" exactly when the payload key is emitted.
C5_PayloadMetadataRule ==
    translated.pc = "returned" =>
        LET e == translated.extra
        IN  /\ \A p \in CopyPairs :
                   /\ p[2] \in DOMAIN e <=> Present(p[1])
                   /\ Present(p[1]) => Get(e, p[2]) = attrs[p[1]]
            /\ \A m \in MimePairs :
                   /\ m[2] \in DOMAIN e <=> m[1] \in DOMAIN e
                   /\ m[2] \in DOMAIN e => e[m[2]] = StrV("application/json")

(***************************************************************************)
(* Span objects.  A finished span is an object of the heap `spans`; a      *)
(* batch refers to its spans by object id.  `attributes` is None or a      *)
(* mapping.                                                                *)
(***************************************************************************)
ReadableSpan(name, trace_id, is_none, attributes) ==
    [name |-> name, trace_id |-> trace_id, status |-> "OK",
     attributes_is_none |-> is_none, attributes |-> attributes]

\* `not span.attributes`: None and the empty mapping are both false.
HasAttributes(span) ==
    ~span.attributes_is_none /\ DOMAIN span.attributes # {}

\* {**a, **b}: the keys of both, b's value where both have the key.
Merge(a, b) ==
    [k \in DOMAIN a \cup DOMAIN b |-> IF k \in DOMAIN b THEN b[k] ELSE a[k]]

\* A reference to the span object i itself.
Same(i) ==
    [cls |-> "ReadableSpan", _original |-> i, _merged_attributes |-> EmptyDict]

\* _ConvertedSpan.__init__ with the merge turned round, {**extra, **orig}:
\* the original's value survives a collision.
_ConvertedSpan_original_wins(h, original, extra_attributes) ==
    [span |-> [cls |-> "_ConvertedSpan", _original |-> original,
               _merged_attributes |->
                   Merge(extra_attributes, h[original].attributes)],
     heap |-> h]

\* _ConvertedSpan.__init__ (lines 57-64) on the heap h: dict(...) copies the
\* original's attributes, so the original object stays as it is.
_ConvertedSpan(h, original, extra_attributes) ==
    LET orig_attrs == IF HasAttributes(h[original])
                      THEN h[original].attributes
                      ELSE EmptyDict
    IN  [span |-> [cls |-> "_ConvertedSpan", _original |-> original,
                   _merged_attributes |-> Merge(orig_attrs, extra_attributes)],
         heap |-> h]

\* The accessors of an exported object o (lines 66-130): all but `attributes`
\* go to the original.
name(h, o) == h[o._original].name
trace_id(h, o) == h[o._original].trace_id
status(h, o) == h[o._original].status
attributes(h, o) ==
    IF o.cls = "_ConvertedSpan"
    THEN o._merged_attributes
    ELSE h[o._original].attributes

\* _convert_span once the translator has answered t (lines 203-207): the
\* TypeError goes up, an empty mapping keeps the span, anything else wraps.
ConvertWith(h, span, t) ==
    IF t.pc = "raised"
    THEN [pc |-> "raised", span |-> Same(span), heap |-> h]
    ELSE IF DOMAIN t.extra = {}
    THEN [pc |-> "returned", span |-> Same(span), heap |-> h]
    ELSE [pc |-> "returned"] @@ _ConvertedSpan(h, span, t.extra)

\* GenAIToOpenInferenceExporter._convert_span (lines 199-207).
_convert_span(h, span) ==
    IF ~HasAttributes(h[span])
    THEN [pc |-> "returned", span |-> Same(span), heap |-> h]
    ELSE ConvertWith(h, span,
                     _convert_genai_to_openinference(h[span].attributes))

\* The comprehension walking the batch from its end.
Comprehension_reversed(h, batch, r) ==
    [pc |-> IF \E i \in 1..Len(batch) : r[i].pc = "raised"
            THEN "raised" ELSE "returned",
     converted |-> [i \in 1..Len(batch) |-> r[Len(batch) + 1 - i].span],
     heap |-> h]

\* The list the comprehension of line 193 builds from the conversions r of
\* the spans of the batch, in batch order; it raises as soon as one
\* conversion does.  No conversion writes to a span object other than its
\* own, so the heap afterwards holds, for each span of the batch, the object
\* its own conversion left.
Comprehension(h, batch, r) ==
    [pc |-> IF \E i \in 1..Len(batch) : r[i].pc = "raised"
            THEN "raised" ELSE "returned",
     converted |-> [i \in 1..Len(batch) |-> r[i].span],
     heap |-> [j \in 1..Len(h) |->
                 IF \E i \in 1..Len(batch) : batch[i] = j
                 THEN r[CHOOSE i \in 1..Len(batch) : batch[i] = j].heap[j]
                 ELSE h[j]]]

\* [self._convert_span(span) for span in spans] (line 193).
ConvertBatch(h, batch) ==
    Comprehension(h, batch,
                  [i \in 1..Len(batch) |-> _convert_span(h, batch[i])])

\* The wrapped sink's answers.
SpanExportResult == {"SUCCESS", "FAILURE"}

\* _logger.info("Exported span: %s (trace_id=%s)", ...) for each converted
\* span (lines 195-196).
LogRecords(h, converted) ==
    [i \in 1..Len(converted) |->
        [msg |-> "Exported span", name |-> name(h, converted[i]),
         trace_id |-> trace_id(h, converted[i])]]

\* export after the comprehension c (lines 194-197): one call of the wrapped
\* sink with the whole converted list, a log record per span, and the sink's
\* answer returned.  When the comprehension raised, export raises with it.
ForwardAndLog(h, c, sink_result) ==
    IF c.pc = "raised"
    THEN [pc |-> "raised", input |-> h, converted |-> <<>>,
          sink_calls |-> <<>>, sink_answers |-> <<>>, log |-> <<>>,
          result |-> "none", heap |-> c.heap]
    ELSE [pc |-> "returned", input |-> h, converted |-> c.converted,
          sink_calls |-> <<c.converted>>, sink_answers |-> <<sink_result>>,
          log |-> LogRecords(c.heap, c.converted),
          result |-> sink_result, heap |-> c.heap]

\* GenAIToOpenInferenceExporter.export (lines 192-197) on the batch of the
\* objects `batch` of the heap h, the wrapped sink answering sink_result.
export(h, batch, sink_result) ==
    ForwardAndLog(h, ConvertBatch(h, batch), sink_result)

(***************************************************************************)
(* Spec: one batch of finished spans is handed to export once.             *)
(***************************************************************************)
MaxBatch == 2

ExportKeys ==
    {_GENAI_OPERATION_NAME, _GENAI_USAGE_INPUT_TOKENS,
     _GENAI_USAGE_OUTPUT_TOKENS, _OI_SPAN_KIND}

ExportValues == {IntV(0), StrV("chat")}

SpanName(i) == IF i % 2 = 1 THEN "reply" ELSE "tool_call"

\* What the `attributes` of a finished span can be: None or a mapping.
SpanAttributes ==
    {[is_none |-> TRUE, d |-> EmptyDict]}
    \cup {[is_none |-> FALSE, d |-> d] :
            d \in Dicts(ExportKeys, ExportValues, MaxAttrs)}

\* The batches of n span objects.
Batches(n) ==
    {[i \in 1..n |-> ReadableSpan(SpanName(i), 7000 + i, f[i].is_none, f[i].d)] :
        f \in [1..n -> SpanAttributes]}

Init ==
    /\ attrs = EmptyDict
    /\ translated = NotCalled
    /\ \E n \in 0..MaxBatch : spans \in Batches(n)
    /\ exported = IdleExport
    /\ tracer_provider = 0
    /\ providers = <<>>
    /\ processors = <<>>
    /\ sink = <<>>
    /\ history = <<>>

\* The batch is the spans of the heap, in order.
Batch == [i \in 1..Len(spans) |-> i]

\* The state after a call of export that did e.
AfterExport(e) ==
    /\ exported' = [pc |-> e.pc, input |-> e.input, converted |-> e.converted,
                    sink_calls |-> e.sink_calls,
                    sink_answers |-> e.sink_answers, log |-> e.log,
                    result |-> e.result]
    /\ spans' = e.heap

Export(sink_result) ==
    /\ exported.pc = "ready"
    /\ AfterExport(export(spans, Batch, sink_result))
    /\ UNCHANGED <<attrs, translated, tracer_provider, providers, processors,
                   sink, history>>

Next == \E sink_result \in SpanExportResult : Export(sink_result)

Spec == Init /\ [][Next]_vars

\* C1: every call of export hands the batch to the wrapped sink in exactly
\* one call and returns exactly what the sink answered.
C1_ForwardedOnceResultUnchanged ==
    exported.pc # "ready" =>
        /\ exported.pc = "returned"
        /\ Len(exported.sink_calls) = 1
        /\ Len(exported.sink_calls[1]) = Len(exported.input)
        /\ exported.result = exported.sink_answers[1]

\* The spans export keeps as they are: no attributes, or nothing derived.
KeptAsIs(span) ==
    \/ ~HasAttributes(span)
    \/ DOMAIN _convert_genai_to_openinference(span.attributes).extra = {}

\* A list handed to the sink is the input batch, place by place.
InOrder(out, input) ==
    /\ Len(out) = Len(input)
    /\ \A i \in 1..Len(out) :
        /\ out[i]._original = i
        /\ out[i].cls =
            IF KeptAsIs(input[i]) THEN "ReadableSpan" ELSE "_ConvertedSpan"

UnionExtraWins(merged, original, extra) ==
    /\ DOMAIN merged = DOMAIN original.attributes \cup DOMAIN extra
    /\ \A k \in DOMAIN extra : merged[k] = extra[k]
    /\ \A k \in DOMAIN original.attributes \ DOMAIN extra :
        merged[k] = original.attributes[k]

\* C6: every _ConvertedSpan export built shows, as attributes, the union of
\* the original's attributes and the derived mapping with the derived value
\* on every shared key; its other accessors give what the original's give;
\* and the span objects passed in are as they were.
C6_ViewOverlaysAttributes ==
    /\ exported.pc # "ready" => spans = exported.input
    /\ \A i \in 1..Len(exported.converted) :
        exported.converted[i].cls = "_ConvertedSpan" =>
            /\ UnionExtraWins(
                 attributes(spans, exported.converted[i]),
                 exported.input[exported.converted[i]._original],
                 _convert_genai_to_openinference(
                     exported.input[exported.converted[i]._original].attributes
                 ).extra)
            /\ name(spans, exported.converted[i]) =
                 exported.input[exported.converted[i]._original].name
            /\ trace_id(spans, exported.converted[i]) =
                 exported.input[exported.converted[i]._original].trace_id
            /\ status(spans, exported.converted[i]) =
                 exported.input[exported.converted[i]._original].status

\* C6's case: a view whose original already carried the span-kind key with
\* another value than the derived one.
C6_Witness ==
    \E i \in 1..Len(exported.converted) :
        /\ exported.converted[i].cls = "_ConvertedSpan"
        /\ _OI_SPAN_KIND \in DOMAIN exported.input[i].attributes
        /\ exported.input[i].attributes[_OI_SPAN_KIND] = StrV("chat")
        /\ exported.converted[i]._merged_attributes[_OI_SPAN_KIND] = StrV("LLM")
        /\ _GENAI_OPERATION_NAME \in DOMAIN exported.converted[i]._merged_attributes

\* C10: a log record per exported span is written only when the wrapped sink
\* answered success; when it answered failure none is written.
C10_LogOnlyAfterSuccess ==
    /\ exported.result = "SUCCESS" =>
           Len(exported.log) = Len(exported.converted)
    /\ exported.result = "FAILURE" => exported.log = <<>>

(***************************************************************************)
(* SpecSetup: the two setup entry points (_setup.py), spans finishing      *)
(* under the installed provider, and the background worker of the          *)
(* buffered delivery policies.                                             *)
(***************************************************************************)
MaxSetupCalls == 2
MaxSpans == 2

\* The endpoints setup_tracing is called with, the one of the Phoenix
\* collector, and the project names ("": project_name is None).
Endpoints == {"http://localhost:4318/v1/traces", "http://otel:4318/v1/traces"}
PhoenixEndpoints == {"http://localhost:6006/v1/traces"}
ProjectNames == {"", "demo"}

\* OTLPSpanExporter(endpoint=..., headers=...): the network sink.
OTLPSpanExporter(endpoint, project) ==
    [translating |-> FALSE, endpoint |-> endpoint,
     phoenix_project_name |-> project]

\* GenAIToOpenInferenceExporter.__init__ (lines 189-190).
GenAIToOpenInferenceExporter(wrapped_exporter) ==
    [wrapped_exporter EXCEPT !.translating = TRUE]

\* BatchSpanProcessor(exporter): the buffered delivery policy.
BatchSpanProcessor(exporter) ==
    [cls |-> "BatchSpanProcessor", policy |-> "batch", exporter |-> exporter,
     queue |-> <<>>]

\* The constructor taking the flag the other way round.
GenAIToOpenInferenceProcessor_flipped(exporter, batch) ==
    [cls |-> "GenAIToOpenInferenceProcessor",
     policy |-> IF batch THEN "simple" ELSE "batch",
     exporter |-> GenAIToOpenInferenceExporter(exporter), queue |-> <<>>]

\* GenAIToOpenInferenceProcessor.__init__ (lines 223-235): the translating
\* exporter inside BatchSpanProcessor when batch, SimpleSpanProcessor if not.
GenAIToOpenInferenceProcessor(exporter, batch) ==
    [cls |-> "GenAIToOpenInferenceProcessor",
     policy |-> IF batch THEN "batch" ELSE "simple",
     exporter |-> GenAIToOpenInferenceExporter(exporter), queue |-> <<>>]

\* The default of the parameter `batch` (line 226).
batch_default == FALSE

\* TracerProvider(resource=...): no span processor yet.
TracerProvider(service_name) ==
    [service_name |-> service_name, processors |-> <<>>]

\* tracer_provider.add_span_processor(span_processor), the processor being
\* the object pid.
add_span_processor(ps, tp, pid) ==
    [ps EXCEPT ![tp].processors = Append(@, pid)]

\* trace.set_tracer_provider(provider).  With no provider installed it
\* installs the new one.  With one installed, the hand-over is either a
\* replacement or, as the OpenTelemetry API does it, refused with a warning:
\* both outcomes are admitted.
set_tracer_provider(current, new) ==
    IF current = 0 THEN {new} ELSE {current, new}

\* What has been called so far; for each finished span, the provider it
\* finished under and how many processors that provider carried then.
NoHistory == [generic_calls |-> 0, phoenix_calls |-> 0, under |-> <<>>,
              attached |-> <<>>]

\* Before any setup: no provider installed (get_tracer_provider gives the
\* API's proxy, no TracerProvider of the SDK), or one installed outside.
InitSetup ==
    /\ attrs = EmptyDict
    /\ translated = NotCalled
    /\ spans = <<>>
    /\ exported = IdleExport
    /\ \/ tracer_provider = 0 /\ providers = <<>>
       \/ tracer_provider = 1 /\ providers = <<TracerProvider("outside")>>
    /\ processors = <<>>
    /\ sink = <<>>
    /\ history = NoHistory

SetupCalls == history.generic_calls + history.phoenix_calls

\* A variant that attaches nothing when a provider is already installed.
setup_tracing_attach_once(endpoint) ==
    /\ SetupCalls < MaxSetupCalls
    /\ processors' =
         IF tracer_provider # 0 /\ providers[tracer_provider].processors # <<>>
         THEN processors
         ELSE Append(processors, BatchSpanProcessor(OTLPSpanExporter(endpoint, "")))
    /\ IF tracer_provider # 0
       THEN /\ providers' =
                 IF providers[tracer_provider].processors # <<>>
                 THEN providers
                 ELSE add_span_processor(providers, tracer_provider,
                                         Len(processors) + 1)
            /\ UNCHANGED tracer_provider
       ELSE /\ providers' =
                 add_span_processor(
                     Append(providers, TracerProvider("unknown_service")),
                     Len(providers) + 1, Len(processors) + 1)
            /\ tracer_provider' = Len(providers) + 1
    /\ history' = [history EXCEPT !.generic_calls = @ + 1]
    /\ UNCHANGED <<attrs, translated, spans, exported, sink>>

\* setup_tracing (_setup.py, lines 11-38).
setup_tracing(endpoint) ==
    /\ SetupCalls < MaxSetupCalls
    /\ processors' =
         Append(processors, BatchSpanProcessor(OTLPSpanExporter(endpoint, "")))
    /\ IF tracer_provider # 0
       THEN /\ providers' = add_span_processor(providers, tracer_provider,
                                               Len(processors) + 1)
            /\ UNCHANGED tracer_provider
       ELSE /\ providers' =
                 add_span_processor(
                     Append(providers, TracerProvider("unknown_service")),
                     Len(providers) + 1, Len(processors) + 1)
            /\ tracer_provider' = Len(providers) + 1
    /\ history' = [history EXCEPT !.generic_calls = @ + 1]
    /\ UNCHANGED <<attrs, translated, spans, exported, sink>>

\* project_name or "agentscope" (line 61).
ProjectOf(project_name) ==
    IF project_name = "" THEN "agentscope" ELSE project_name

\* setup_phoenix_tracing (_setup.py, lines 41-72).
setup_phoenix_tracing(endpoint, project_name) ==
    /\ SetupCalls < MaxSetupCalls
    /\ processors' =
         Append(processors,
                GenAIToOpenInferenceProcessor(
                    OTLPSpanExporter(endpoint, ProjectOf(project_name)),
                    batch_default))
    /\ providers' =
         add_span_processor(
             Append(providers, TracerProvider(ProjectOf(project_name))),
             Len(providers) + 1, Len(processors) + 1)
    /\ tracer_provider' \in
         set_tracer_provider(tracer_provider, Len(providers) + 1)
    /\ history' = [history EXCEPT !.phoenix_calls = @ + 1]
    /\ UNCHANGED <<attrs, translated, spans, exported, sink>>

\* The attributes of the spans that finish in SpecSetup: an operation name,
\* or token counts of two types.
SetupSpanAttributes ==
    {[is_none |-> FALSE,
      d |-> [k \in {_GENAI_OPERATION_NAME} |-> StrV("chat")]],
     [is_none |-> FALSE,
      d |-> [k \in {_GENAI_USAGE_INPUT_TOKENS, _GENAI_USAGE_OUTPUT_TOKENS} |->
               IF k = _GENAI_USAGE_INPUT_TOKENS THEN IntV(12) ELSE StrV("5")]]}

\* A delivery policy calling its exporter with `batch`: does the batch reach
\* the network sink?  Both policies catch what the exporter raises and log it.
Delivers(h, exporter, batch, sink_result) ==
    exporter.translating => export(h, batch, sink_result).pc = "returned"

\* What the network sink then receives.
Sent(h, exporter, batch, sink_result) ==
    IF exporter.translating
    THEN export(h, batch, sink_result).converted
    ELSE [i \in 1..Len(batch) |-> Same(batch[i])]

Delivery(h, pid, exporter, batch, during, sink_result) ==
    [processor |-> pid, endpoint |-> exporter.endpoint,
     phoenix_project_name |-> exporter.phoenix_project_name,
     during |-> during, spans |-> batch,
     batch |-> Sent(h, exporter, batch, sink_result)]

\* SimpleSpanProcessor.on_end of each immediate policy among pids, in the
\* order they were attached: export((span,)) there and then.
ImmediateDeliveries(h, ps, pids, span, sink_result) ==
    [i \in 1..Len(pids) |->
        Delivery(h, pids[i], ps[pids[i]].exporter, <<span>>, "on_end",
                 sink_result)]

\* A span finishes: the installed provider hands it to the on_end of every
\* attached processor (GenAIToOpenInferenceProcessor.on_end, lines 240-241,
\* forwards to its policy).  An immediate policy exports it inside on_end, a
\* buffered one puts it on its queue.
on_end(a, sink_result) ==
    /\ tracer_provider # 0
    /\ Len(spans) < MaxSpans
    /\ spans' = Append(spans, ReadableSpan(SpanName(Len(spans) + 1),
                                           7000 + Len(spans) + 1,
                                           a.is_none, a.d))
    /\ processors' =
         [p \in 1..Len(processors) |->
            IF /\ processors[p].policy = "batch"
               /\ \E i \in 1..Len(providers[tracer_provider].processors) :
                      providers[tracer_provider].processors[i] = p
            THEN [processors[p] EXCEPT !.queue = Append(@, Len(spans) + 1)]
            ELSE processors[p]]
    /\ sink' = sink \o
         ImmediateDeliveries(
             spans', processors,
             SelectSeq(providers[tracer_provider].processors,
                       LAMBDA p :
                           /\ processors[p].policy = "simple"
                           /\ Delivers(spans', processors[p].exporter,
                                       <<Len(spans) + 1>>, sink_result)),
             Len(spans) + 1, sink_result)
    /\ history' = [history EXCEPT
                     !.under = Append(@, tracer_provider),
                     !.attached =
                         Append(@, Len(providers[tracer_provider].processors))]
    /\ UNCHANGED <<attrs, translated, exported, tracer_provider, providers>>

\* The background worker of the buffered policy pid drains its queue: one
\* export call with what is queued.
worker(pid, sink_result) ==
    /\ processors[pid].policy = "batch"
    /\ processors[pid].queue # <<>>
    /\ sink' =
         IF Delivers(spans, processors[pid].exporter, processors[pid].queue,
                     sink_result)
         THEN Append(sink, Delivery(spans, pid, processors[pid].exporter,
                                    processors[pid].queue, "worker",
                                    sink_result))
         ELSE sink
    /\ processors' = [processors EXCEPT ![pid].queue = <<>>]
    /\ UNCHANGED <<attrs, translated, spans, exported, tracer_provider,
                   providers, history>>

NextSetup ==
    \/ \E endpoint \in Endpoints : setup_tracing(endpoint)
    \/ \E endpoint \in PhoenixEndpoints, project_name \in ProjectNames :
           setup_phoenix_tracing(endpoint, project_name)
    \/ \E a \in SetupSpanAttributes, sink_result \in SpanExportResult :
           on_end(a, sink_result)
    \/ \E pid \in 1..Len(processors), sink_result \in SpanExportResult :
           worker(pid, sink_result)

SpecSetup == InitSetup /\ [][NextSetup]_vars

IsPhoenix(p) == processors[p].cls = "GenAIToOpenInferenceProcessor"

\* The span s reached the sink through the processor p inside on_end, alone.
ExportedInOnEnd(s, p) ==
    \E d \in 1..Len(sink) :
        /\ sink[d].processor = p
        /\ sink[d].spans = <<s>>
        /\ sink[d].during = "on_end"

\* C7 (as the code has it): the processor setup_phoenix_tracing attaches is
\* a GenAIToOpenInferenceProcessor in immediate mode.  Its policy is the
\* immediate one around the translating exporter, it never queues, and every
\* span that finished under its provider and that the translating exporter
\* did not raise on was exported, alone, inside on_end.
C7_PhoenixImmediate ==
    /\ \A p \in 1..Len(processors) :
        IsPhoenix(p) =>
            /\ processors[p].policy = "simple"
            /\ processors[p].exporter.translating
            /\ processors[p].queue = <<>>
    /\ \A d \in 1..Len(sink) :
        IsPhoenix(sink[d].processor) =>
            sink[d].during = "on_end" /\ Len(sink[d].batch) = 1
    /\ \A s \in 1..Len(spans) :
        \A i \in 1..history.attached[s] :
            (/\ IsPhoenix(providers[history.under[s]].processors[i])
             /\ export(spans, <<s>>, "SUCCESS").pc = "returned")
            => ExportedInOnEnd(s, providers[history.under[s]].processors[i])

\* C7's case: a span finished under a provider of setup_phoenix_tracing and
\* reached the sink, translated, inside on_end.
C7_Witness ==
    \E d \in 1..Len(sink) :
        /\ IsPhoenix(sink[d].processor)
        /\ sink[d].during = "on_end"
        /\ sink[d].batch[1].cls = "_ConvertedSpan"
        /\ sink[d].phoenix_project_name = "demo"

\* C7 as claimed: the processor setup_phoenix_tracing attaches is in buffered
\* mode, so its spans are queued by on_end and exported later by the worker.
C7_PhoenixBuffered ==
    /\ \A p \in 1..Len(processors) :
        IsPhoenix(p) => processors[p].policy = "batch"
    /\ \A d \in 1..Len(sink) :
        IsPhoenix(sink[d].processor) => sink[d].during = "worker"

\* How many times the span s reached a sink, and on how many queues it waits.
TimesDelivered(s) ==
    Cardinality({d \in 1..Len(sink) :
                   \E i \in 1..Len(sink[d].spans) : sink[d].spans[i] = s})
TimesQueued(s) ==
    Cardinality({p \in 1..Len(processors) :
                   \E i \in 1..Len(processors[p].queue) :
                       processors[p].queue[i] = s})

OnlyGenericSetup == history.phoenix_calls = 0

\* C8 (as the code has it): while only setup_tracing is called, the
\* installed provider stays the same one, and every call attaches one more
\* buffered policy around a plain network sink to it: after n calls it carries
\* n of them, and a span that finishes then is queued on, and delivered
\* through, each of the n, once each.
C8_EachCallAttaches ==
    OnlyGenericSetup =>
        /\ history.generic_calls > 0 =>
               tracer_provider = 1 /\ Len(providers) = 1
        /\ Len(processors) = history.generic_calls
        /\ tracer_provider # 0 =>
               providers[tracer_provider].processors =
                   [i \in 1..history.generic_calls |-> i]
        /\ \A p \in 1..Len(processors) :
               /\ processors[p].cls = "BatchSpanProcessor"
               /\ processors[p].policy = "batch"
               /\ ~processors[p].exporter.translating
        /\ \A s \in 1..Len(spans) :
               /\ TimesDelivered(s) + TimesQueued(s) = history.attached[s]
               /\ \A p \in 1..Len(processors) :
                      Cardinality({d \in 1..Len(sink) :
                                     /\ sink[d].processor = p
                                     /\ \E i \in 1..Len(sink[d].spans) :
                                            sink[d].spans[i] = s}) <= 1

\* C8's case: setup_tracing was called twice with one endpoint, and a span
\* that finished afterwards reached that endpoint's sink twice.
C8_Witness ==
    /\ OnlyGenericSetup
    /\ history.generic_calls >= 2
    /\ \E s \in 1..Len(spans) :
        /\ history.attached[s] >= 2
        /\ TimesDelivered(s) = 2
        /\ \E d, e \in 1..Len(sink) :
            /\ d # e
            /\ sink[d].spans = <<s>>
            /\ sink[e].spans = <<s>>
            /\ sink[d].endpoint = sink[e].endpoint

\* C8 as claimed: calls of setup_tracing with one endpoint leave the provider
\* with the policies of a single call, and a finished span reaches the
\* endpoint's sink once.
C8_Idempotent ==
    OnlyGenericSetup =>
        /\ tracer_provider # 0 =>
               \A e \in Endpoints :
                   Cardinality(
                       {i \in 1..Len(providers[tracer_provider].processors) :
                          processors[providers[tracer_provider].processors[i]]
                              .exporter.endpoint = e}) <= 1
        /\ \A s \in 1..Len(spans) : TimesDelivered(s) <= 1

====
